---- MODULE Spec2Model ----
(***************************************************************************)
(* Model of tools/checkpoint_conversion/convert_distilbert_checkpoints.py. *)
(* The script is a straight-line program: the state is the position in     *)
(* main, the file system, the HTTP requests made, the two loaded models    *)
(* and the destination model's weight slots.  The environment (the hub's   *)
(* answers, the architectures of the two models) is chosen where the       *)
(* script first observes it.                                               *)
(***************************************************************************)
EXTENDS Integers, Sequences, FiniteSets, TLC

(* ------------------------------ bounds -------------------------------- *)
MaxLayers == 2
MaxHeads == 2
MaxHeadDim == 2
VocabSize == 2
MaxPositions == 2

(* ----------------------------- constants ------------------------------ *)
Absent == "None"

\* Variant: two presets naming the same upstream model.
PRESET_MAP_Repeated ==
  [ distil_bert_base_en_uncased |-> "distilbert-base-uncased",
    distil_bert_base_en_cased |-> "distilbert-base-uncased",
    distil_bert_base_multi_cased |-> "distilbert-base-multilingual-cased" ]

PRESET_MAP ==
  [ distil_bert_base_en_uncased |-> "distilbert-base-uncased",
    distil_bert_base_en_cased |-> "distilbert-base-cased",
    distil_bert_base_multi_cased |-> "distilbert-base-multilingual-cased" ]

\* Values the --preset flag can hold when the program starts: a key of
\* PRESET_MAP, the flag's default None, or any other string.
FlagValues == DOMAIN PRESET_MAP \cup {Absent, "not_a_preset"}

(* ------------------------------ paths --------------------------------- *)
\* A path is its sequence of components.
EXTRACT_DIR(p) == <<".", p>>

PathJoin(dir, name) == Append(dir, name)

ConfigPath(p) == PathJoin(EXTRACT_DIR(p), "config.json")

VocabPath(p) == PathJoin(EXTRACT_DIR(p), "vocab.txt")

\* f"{FLAGS.preset}.h5", the name save_weights is given.
WeightsPath(p) == <<p \o ".h5">>

\* f"./{FLAGS.preset}.h5", the name get_md5_checksum is given.
ChecksumPath(p) == <<".", p \o ".h5">>

\* The file a path names, relative to the working directory: "." components
\* name the directory they are in.
RECURSIVE Resolve(_)
Resolve(path) ==
  IF path = <<>> THEN <<>>
  ELSE IF Head(path) = "." THEN Resolve(Tail(path))
  ELSE <<Head(path)>> \o Resolve(Tail(path))

ConfigUrl(name) == <<"https://huggingface.co", name, "raw/main/config.json">>

VocabUrl(name) == <<"https://huggingface.co", name, "raw/main/vocab.txt">>

(* ----------------------------- tensors -------------------------------- *)
\* A tensor is its shape and its elements in row-major order.  The elements
\* of a source tensor are numbered by their row-major position, so that an
\* element of a destination tensor names the source element it came from.
RECURSIVE Prod(_)
Prod(s) == IF s = <<>> THEN 1 ELSE Head(s) * Prod(Tail(s))

Iota(shape) == [shape |-> shape, data |-> [e \in 1..Prod(shape) |-> e - 1]]

\* torch.Tensor.transpose(1, 0) of a 2-D tensor.
Transpose(t) ==
  LET r == t.shape[1]
      c == t.shape[2]
  IN [shape |-> <<c, r>>,
      data |-> [e \in 1..(r * c) |->
                  t.data[((e - 1) % r) * c + ((e - 1) \div r) + 1]]]

\* torch.Tensor.reshape(shape) where one entry of shape may be -1.
Known(shape) ==
  Prod([d \in 1..Len(shape) |-> IF shape[d] = -1 THEN 1 ELSE shape[d]])

ReshapeOk(t, shape) ==
  IF \E d \in 1..Len(shape) : shape[d] = -1
  THEN Known(shape) > 0 /\ Prod(t.shape) % Known(shape) = 0
  ELSE Prod(t.shape) = Prod(shape)

Reshape(t, shape) ==
  [shape |-> [d \in 1..Len(shape) |->
                IF shape[d] = -1 THEN Prod(t.shape) \div Known(shape)
                ELSE shape[d]],
   data |-> t.data]

(* ------------------------- the two models ----------------------------- *)
\* The upstream (source) model: the architecture its config.json states and
\* its state dictionary has.
\* hidden_dim, the width of the feed-forward layer, is either the model's
\* dim or differs from it.
HubArchs ==
  { a \in [n_layers : 1..MaxLayers, n_heads : 1..MaxHeads,
           head_dim : 1..MaxHeadDim,
           hidden_dim : 1..(MaxHeads * MaxHeadDim + 1)] :
      a.hidden_dim \in {a.n_heads * a.head_dim, a.n_heads * a.head_dim + 1} }

NoModel == [n_layers |-> 0, n_heads |-> 0, head_dim |-> 0, hidden_dim |-> 0]

\* json.load of the hub's config.json.
HubConfig(m) ==
  [vocab_size |-> VocabSize, n_layers |-> m.n_layers, n_heads |-> m.n_heads,
   dim |-> m.n_heads * m.head_dim, hidden_dim |-> m.hidden_dim,
   dropout |-> 0, max_position_embeddings |-> MaxPositions]

SrcKey(layer, name) == [layer |-> layer, name |-> name]

NoKey == SrcKey(-1, "")

EmbeddingKeys ==
  {"embeddings.word_embeddings.weight", "embeddings.position_embeddings.weight",
   "embeddings.LayerNorm.weight", "embeddings.LayerNorm.bias"}

LayerKeys ==
  {"attention.q_lin.weight", "attention.q_lin.bias",
   "attention.k_lin.weight", "attention.k_lin.bias",
   "attention.v_lin.weight", "attention.v_lin.bias",
   "attention.out_lin.weight", "attention.out_lin.bias",
   "sa_layer_norm.weight", "sa_layer_norm.bias",
   "ffn.lin1.weight", "ffn.lin1.bias", "ffn.lin2.weight", "ffn.lin2.bias",
   "output_layer_norm.weight", "output_layer_norm.bias"}

\* hf_model.state_dict().keys()
StateDictKeys(m) ==
  {SrcKey(-1, n) : n \in EmbeddingKeys}
    \cup {SrcKey(l, n) : l \in 0..(m.n_layers - 1), n \in LayerKeys}

SrcShape(m, name) ==
  LET H == m.n_heads * m.head_dim
      I == m.hidden_dim
  IN CASE name = "embeddings.word_embeddings.weight" -> <<VocabSize, H>>
       [] name = "embeddings.position_embeddings.weight" -> <<MaxPositions, H>>
       [] name \in {"attention.q_lin.weight", "attention.k_lin.weight",
                    "attention.v_lin.weight", "attention.out_lin.weight"} -> <<H, H>>
       [] name = "ffn.lin1.weight" -> <<I, H>>
       [] name = "ffn.lin2.weight" -> <<H, I>>
       [] name = "ffn.lin1.bias" -> <<I>>
       [] OTHER -> <<H>>

\* hf_wts[key]
StateDict(m, key) == Iota(SrcShape(m, key.name))

\* The architecture of the model from_pretrained(name) returns: the one the
\* hub's config.json states.
Architecture(name, observed) == IF name = "" THEN NoModel ELSE observed

\* The destination model, DistilBertBackbone.from_preset(load_weights=False).
LayerName(name, index) == [name |-> name, index |-> index]

StandardLayers(n) ==
  {LayerName("token_and_position_embedding", -1),
   LayerName("embeddings_layer_norm", -1)}
    \cup {LayerName("transformer_layer", l) : l \in 0..(n - 1)}

KerasModel(a, ls) ==
  [num_layers |-> a.n_layers, num_heads |-> a.n_heads,
   hidden_dim |-> a.n_heads * a.head_dim, intermediate_dim |-> a.hidden_dim,
   layers |-> ls]

\* The architectures a preset may have, with the layer names this script
\* expects or with the embedding layer norm under another name.
KerasModels ==
  UNION { {KerasModel(a, StandardLayers(a.n_layers)),
           KerasModel(a, StandardLayers(a.n_layers)
                           \ {LayerName("embeddings_layer_norm", -1)})} :
          a \in HubArchs }

NoKeras ==
  [num_layers |-> 0, num_heads |-> 0, hidden_dim |-> 0, intermediate_dim |-> 0,
   layers |-> {}]

Slot(layer, attr) == [layer |-> layer, attr |-> attr]

EmbeddingAttrs(layer) ==
  CASE layer.name = "token_and_position_embedding" ->
         {"token_embedding.embeddings", "position_embedding.position_embeddings"}
    [] layer.name = "embeddings_layer_norm" -> {"gamma", "beta"}
    [] OTHER -> {}

TransformerAttrs ==
  {"_self_attention_layer._query_dense.kernel",
   "_self_attention_layer._query_dense.bias",
   "_self_attention_layer._key_dense.kernel",
   "_self_attention_layer._key_dense.bias",
   "_self_attention_layer._value_dense.kernel",
   "_self_attention_layer._value_dense.bias",
   "_self_attention_layer._output_dense.kernel",
   "_self_attention_layer._output_dense.bias",
   "_self_attention_layer_norm.gamma", "_self_attention_layer_norm.beta",
   "_feedforward_intermediate_dense.kernel", "_feedforward_intermediate_dense.bias",
   "_feedforward_output_dense.kernel", "_feedforward_output_dense.bias",
   "_feedforward_layer_norm.gamma", "_feedforward_layer_norm.beta"}

LayerAttrs(layer) ==
  IF layer.name = "transformer_layer" THEN TransformerAttrs ELSE EmbeddingAttrs(layer)

\* Shape of the destination variable a slot names.
VarShape(k, attr) ==
  LET H == k.hidden_dim
      N == k.num_heads
      D == k.hidden_dim \div k.num_heads
      I == k.intermediate_dim
  IN CASE attr = "token_embedding.embeddings" -> <<VocabSize, H>>
       [] attr = "position_embedding.position_embeddings" -> <<MaxPositions, H>>
       [] attr \in {"_self_attention_layer._query_dense.kernel",
                    "_self_attention_layer._key_dense.kernel",
                    "_self_attention_layer._value_dense.kernel"} -> <<H, N, D>>
       [] attr \in {"_self_attention_layer._query_dense.bias",
                    "_self_attention_layer._key_dense.bias",
                    "_self_attention_layer._value_dense.bias"} -> <<N, D>>
       [] attr = "_self_attention_layer._output_dense.kernel" -> <<N, D, H>>
       [] attr = "_feedforward_intermediate_dense.kernel" -> <<H, I>>
       [] attr = "_feedforward_intermediate_dense.bias" -> <<I>>
       [] attr = "_feedforward_output_dense.kernel" -> <<I, H>>
       [] OTHER -> <<H>>

\* The weights of a freshly built model: every variable holds its initial
\* value (no data of the source) and has been assigned from no source tensor.
InitialWeights(k) ==
  [s \in UNION {{Slot(l, a) : a \in LayerAttrs(l)} : l \in k.layers}
     |-> [shape |-> VarShape(k, s.attr), data |-> <<>>, src |-> NoKey]]

(* ------------------------ convert_checkpoints -------------------------- *)
NoCfg ==
  [vocabulary_size |-> 0, num_layers |-> 0, num_heads |-> 0, hidden_dim |-> 0,
   intermediate_dim |-> 0, dropout |-> 0, max_sequence_length |-> 0]

\* cfg as built from the parsed config.json.
BuildConfig(pt_cfg) ==
  [vocabulary_size |-> pt_cfg.vocab_size,
   num_layers |-> pt_cfg.n_layers,
   num_heads |-> pt_cfg.n_heads,
   hidden_dim |-> pt_cfg.dim,
   intermediate_dim |-> pt_cfg.hidden_dim,
   dropout |-> pt_cfg.dropout,
   max_sequence_length |-> pt_cfg.max_position_embeddings]

\* json.load succeeds on a JSON document; the keys read from it are there
\* when the document is the model's configuration.
JsonParses(content) == content \in {"config_json", "error_json"}

HasConfigKeys(content) == content = "config_json"

\* The value each kind of assignment statement passes to assign(), as a
\* sequence of reshape targets applied after an optional transpose.
QueryKernelUntransposed(t, c) ==
  [pre |-> t, shape |-> <<c.hidden_dim, c.num_heads, -1>>]

QueryKernel(t, c) == [pre |-> Transpose(t), shape |-> <<c.hidden_dim, c.num_heads, -1>>]

QueryBias(t, c) == [pre |-> t, shape |-> <<c.num_heads, -1>>]

KeyKernel(t, c) == [pre |-> Transpose(t), shape |-> <<c.hidden_dim, c.num_heads, -1>>]

KeyBias(t, c) == [pre |-> t, shape |-> <<c.num_heads, -1>>]

ValueKernel(t, c) == [pre |-> Transpose(t), shape |-> <<c.hidden_dim, c.num_heads, -1>>]

ValueBias(t, c) == [pre |-> t, shape |-> <<c.num_heads, -1>>]

OutputKernelUntransposed(t, c) ==
  [pre |-> t, shape |-> <<c.num_heads, -1, c.hidden_dim>>]

OutputKernel(t, c) == [pre |-> Transpose(t), shape |-> <<c.num_heads, -1, c.hidden_dim>>]

IntermediateKernel(t) == [pre |-> Transpose(t), shape |-> Transpose(t).shape]

FeedForwardOutputKernel(t) == [pre |-> Transpose(t), shape |-> Transpose(t).shape]

Plain(t) == [pre |-> t, shape |-> t.shape]

Conversion(op, t, c) ==
  CASE op = "query_kernel" -> QueryKernel(t, c)
    [] op = "query_bias" -> QueryBias(t, c)
    [] op = "key_kernel" -> KeyKernel(t, c)
    [] op = "key_bias" -> KeyBias(t, c)
    [] op = "value_kernel" -> ValueKernel(t, c)
    [] op = "value_bias" -> ValueBias(t, c)
    [] op = "output_kernel" -> OutputKernel(t, c)
    [] op = "intermediate_kernel" -> IntermediateKernel(t)
    [] op = "ffn_output_kernel" -> FeedForwardOutputKernel(t)
    [] OTHER -> Plain(t)

Stmt(layer, attr, key, op) == [layer |-> layer, attr |-> attr, key |-> key, op |-> op]

\* The four assignments before the loop.
EmbeddingStatements ==
  << Stmt("token_and_position_embedding", "token_embedding.embeddings",
          "embeddings.word_embeddings.weight", "plain"),
     Stmt("token_and_position_embedding", "position_embedding.position_embeddings",
          "embeddings.position_embeddings.weight", "plain"),
     Stmt("embeddings_layer_norm", "gamma", "embeddings.LayerNorm.weight", "plain"),
     Stmt("embeddings_layer_norm", "beta", "embeddings.LayerNorm.bias", "plain") >>

\* The sixteen assignments of the loop body, in order.
LayerStatements ==
  << Stmt("transformer_layer", "_self_attention_layer._query_dense.kernel",
          "attention.q_lin.weight", "query_kernel"),
     Stmt("transformer_layer", "_self_attention_layer._query_dense.bias",
          "attention.q_lin.bias", "query_bias"),
     Stmt("transformer_layer", "_self_attention_layer._key_dense.kernel",
          "attention.k_lin.weight", "key_kernel"),
     Stmt("transformer_layer", "_self_attention_layer._key_dense.bias",
          "attention.k_lin.bias", "key_bias"),
     Stmt("transformer_layer", "_self_attention_layer._value_dense.kernel",
          "attention.v_lin.weight", "value_kernel"),
     Stmt("transformer_layer", "_self_attention_layer._value_dense.bias",
          "attention.v_lin.bias", "value_bias"),
     Stmt("transformer_layer", "_self_attention_layer._output_dense.kernel",
          "attention.out_lin.weight", "output_kernel"),
     Stmt("transformer_layer", "_self_attention_layer._output_dense.bias",
          "attention.out_lin.bias", "plain"),
     Stmt("transformer_layer", "_self_attention_layer_norm.gamma",
          "sa_layer_norm.weight", "plain"),
     Stmt("transformer_layer", "_self_attention_layer_norm.beta",
          "sa_layer_norm.bias", "plain"),
     Stmt("transformer_layer", "_feedforward_intermediate_dense.kernel",
          "ffn.lin1.weight", "intermediate_kernel"),
     Stmt("transformer_layer", "_feedforward_intermediate_dense.bias",
          "ffn.lin1.bias", "plain"),
     Stmt("transformer_layer", "_feedforward_output_dense.kernel",
          "ffn.lin2.weight", "ffn_output_kernel"),
     Stmt("transformer_layer", "_feedforward_output_dense.bias",
          "ffn.lin2.bias", "plain"),
     Stmt("transformer_layer", "_feedforward_layer_norm.gamma",
          "output_layer_norm.weight", "plain"),
     Stmt("transformer_layer", "_feedforward_layer_norm.beta",
          "output_layer_norm.bias", "plain") >>

\* Variant: the first layer's tensor whatever the iteration.
LayerKeyFirst(st, l) == SrcKey(0, st.key)

\* The source key a statement of the loop body reads in iteration l:
\* f"transformer.layer.{i}.<key>".
LayerKey(st, l) == SrcKey(l, st.key)

\* The layer a statement of the loop body writes in iteration l:
\* f"transformer_layer_{i}".
LayerOf(st, l) == LayerName(st.layer, l)

\* Variant: a value of any shape is taken.
ShapesUnchecked(var, value) == TRUE

\* Variable.assign accepts a value of the variable's shape only.
ShapesMatch(var, value) == var.shape = value.shape

\* Variants of the loop's range: one iteration short, and the layer count of
\* config.json in place of the destination model's.
LoopBoundShort(model, c) == model.num_layers - 1

LoopBoundFromConfig(model, c) == c.num_layers

\* range(keras_hub_model.num_layers)
LoopBound(model, c) == model.num_layers

(* ------------------------------ state --------------------------------- *)
VARIABLES
  pc,               \* the statement of the script about to run
  preset,           \* FLAGS.preset
  hf_model_name,    \* main's local
  dirs,             \* directories that exist
  files,            \* existing files and their content
  write_log,        \* files the script has opened for writing, in order
  http_log,         \* URLs the script has requested, in order
  response,         \* download_files' local
  hub,              \* the upstream model's architecture, once the run has observed it
  steps,            \* the steps of main entered, in order
  tokenizer_vocab,  \* content of the file the tokenizer was built from
  keras_hub_model,  \* the destination model
  weights,          \* its variables
  hf_model,         \* the source model: the upstream model of this name
  cfg,              \* convert_checkpoints' local
  i,                \* the loop variable of convert_checkpoints
  k,                \* the assignment about to run within its block
  assign_log,       \* completed assignments: destination slot and source key
  read_log,         \* source keys looked up in hf_wts
  stdout,           \* lines printed by convert_checkpoints and check_output
  err               \* the exception that ended the run, if any

fsVars == <<dirs, files, write_log>>

netVars == <<http_log, response, hub>>

modelVars == <<keras_hub_model, weights, hf_model, cfg>>

loopVars == <<i, k, assign_log, read_log>>

vars ==
  <<pc, preset, hf_model_name, dirs, files, write_log, http_log, response, hub,
    steps, tokenizer_vocab, keras_hub_model, weights, hf_model, cfg, i, k,
    assign_log, read_log, stdout, err>>

NoErr == [kind |-> "", at |-> ""]

NoResponse == [status |-> 0, content |-> ""]

\* File systems the script may start in: nothing there, or the preset's
\* directory with any of the two downloaded files left by an earlier run.
InitialFiles(p) ==
  { [f \in fs |-> "old"] :
      fs \in SUBSET {Resolve(ConfigPath(p)), Resolve(VocabPath(p))} }

Init ==
  /\ pc \in {"__main__", "main"}
  /\ preset \in FlagValues
  /\ dirs \in {{}, {Resolve(EXTRACT_DIR(preset))}}
  /\ files \in InitialFiles(preset)
  /\ \A f \in DOMAIN files : Len(f) > 1 => SubSeq(f, 1, Len(f) - 1) \in dirs
  /\ hf_model_name = ""
  /\ write_log = <<>>
  /\ http_log = <<>>
  /\ response = NoResponse
  /\ hub = NoModel
  /\ steps = <<>>
  /\ tokenizer_vocab = ""
  /\ keras_hub_model = NoKeras
  /\ weights = <<>>
  /\ hf_model = ""
  /\ cfg = NoCfg
  /\ i = 0
  /\ k = 0
  /\ assign_log = <<>>
  /\ read_log = <<>>
  /\ stdout = <<>>
  /\ err = NoErr

\* An exception nothing catches: the run ends where it was raised.
Raise(kind) ==
  /\ pc' = "raised"
  /\ err' = [kind |-> kind, at |-> pc]

Goto(label) ==
  /\ pc' = label
  /\ err' = err

\* Variant: the numerical check ahead of the conversion.
AfterCheckFirst(step) ==
  CASE step = "PRESET_MAP[FLAGS.preset]" -> "download_files"
    [] step = "download_files" -> "define_preprocessor"
    [] step = "define_preprocessor" -> "load_keras_hub_model"
    [] step = "load_keras_hub_model" -> "load_hf_model"
    [] step = "load_hf_model" -> "check_output"
    [] step = "check_output" -> "convert_checkpoints"
    [] OTHER -> "done"

\* main's statements in order: what runs when a step returns.
After(step) ==
  CASE step = "PRESET_MAP[FLAGS.preset]" -> "download_files"
    [] step = "download_files" -> "define_preprocessor"
    [] step = "define_preprocessor" -> "load_keras_hub_model"
    [] step = "load_keras_hub_model" -> "load_hf_model"
    [] step = "load_hf_model" -> "convert_checkpoints"
    [] step = "convert_checkpoints" -> "check_output"
    [] OTHER -> "done"

(* ------------------------------ __main__ ------------------------------ *)
\* flags.mark_flag_as_required("preset"); app.run(main): without a value
\* for the flag the flag check ends the program and main is not called.
RunApp ==
  /\ pc = "__main__"
  /\ pc' = (IF preset = Absent THEN "usage_error" ELSE "main")
  /\ UNCHANGED <<preset, hf_model_name, fsVars, netVars, steps, tokenizer_vocab,
                 modelVars, loopVars, stdout, err>>

(* -------------------------------- main -------------------------------- *)
\* hf_model_name = PRESET_MAP[FLAGS.preset]
LookupPreset ==
  /\ pc = "main"
  /\ IF preset \in DOMAIN PRESET_MAP
     THEN hf_model_name' = PRESET_MAP[preset] /\ Goto(After("PRESET_MAP[FLAGS.preset]"))
     ELSE hf_model_name' = hf_model_name /\ Raise("KeyError")
  /\ UNCHANGED <<preset, fsVars, netVars, steps, tokenizer_vocab, modelVars,
                 loopVars, stdout>>

(* --------------------------- download_files --------------------------- *)
\* os.makedirs(extract_dir) unless it exists.
MakeExtractDir ==
  /\ pc = "download_files"
  /\ steps' = Append(steps, "download_files")
  /\ dirs' = (IF Resolve(EXTRACT_DIR(preset)) \in dirs THEN dirs
              ELSE dirs \cup {Resolve(EXTRACT_DIR(preset))})
  /\ Goto("get_config")
  /\ UNCHANGED <<preset, hf_model_name, files, write_log, netVars,
                 tokenizer_vocab, modelVars, loopVars, stdout>>

\* Variant: only the body of a successful response is kept.
BodyIfOk(resp) == IF resp.status = 200 THEN resp.content ELSE ""

\* What open(path, "wb").write(...) is given.
BodyToWrite(resp) == resp.content

\* open(path, "wb").write(response.content)
WriteFile(path, next) ==
  IF SubSeq(Resolve(path), 1, Len(Resolve(path)) - 1) \in dirs \cup {<<>>}
  THEN /\ files' = (Resolve(path) :> BodyToWrite(response)) @@ files
       /\ write_log' = Append(write_log, Resolve(path))
       /\ Goto(next)
  ELSE /\ UNCHANGED <<files, write_log>>
       /\ Raise("FileNotFoundError")

\* requests.get(".../config.json")
GetConfig ==
  /\ pc = "get_config"
  /\ http_log' = Append(http_log, ConfigUrl(hf_model_name))
  /\ \E outcome \in {"ok", "not_found", "no_connection"} :
       CASE outcome = "ok" ->
              /\ \E a \in HubArchs : hub' = a
              /\ response' = [status |-> 200, content |-> "config_json"]
              /\ Goto("write_config")
         [] outcome = "not_found" ->
              /\ \E body \in {"error_text", "error_json"} :
                   response' = [status |-> 404, content |-> body]
              /\ hub' = hub
              /\ Goto("write_config")
         [] OTHER ->
              /\ UNCHANGED <<response, hub>>
              /\ Raise("ConnectionError")
  /\ UNCHANGED <<preset, hf_model_name, fsVars, steps, tokenizer_vocab,
                 modelVars, loopVars, stdout>>

WriteConfig ==
  /\ pc = "write_config"
  /\ WriteFile(ConfigPath(preset), "get_vocab")
  /\ UNCHANGED <<preset, hf_model_name, dirs, netVars, steps, tokenizer_vocab,
                 modelVars, loopVars, stdout>>

\* requests.get(".../vocab.txt")
GetVocab ==
  /\ pc = "get_vocab"
  /\ http_log' = Append(http_log, VocabUrl(hf_model_name))
  /\ \E outcome \in {"ok", "not_found", "no_connection"} :
       CASE outcome = "ok" ->
              /\ response' = [status |-> 200, content |-> "vocab_txt"]
              /\ Goto("write_vocab")
         [] outcome = "not_found" ->
              /\ response' = [status |-> 404, content |-> "error_text"]
              /\ Goto("write_vocab")
         [] OTHER ->
              /\ response' = response
              /\ Raise("ConnectionError")
  /\ UNCHANGED <<preset, hf_model_name, fsVars, hub, steps, tokenizer_vocab,
                 modelVars, loopVars, stdout>>

WriteVocab ==
  /\ pc = "write_vocab"
  /\ WriteFile(VocabPath(preset), After("download_files"))
  /\ UNCHANGED <<preset, hf_model_name, dirs, netVars, steps, tokenizer_vocab,
                 modelVars, loopVars, stdout>>

(* ------------------------- define_preprocessor ------------------------ *)
\* The tokenizer is built from the vocabulary file; a file that is no
\* vocabulary may or may not be refused, and the upstream tokenizer comes
\* from the hub, which may not answer.
DefinePreprocessor ==
  /\ pc = "define_preprocessor"
  /\ steps' = Append(steps, "define_preprocessor")
  /\ LET path == Resolve(VocabPath(preset))
     IN IF path \notin DOMAIN files
        THEN /\ UNCHANGED <<tokenizer_vocab, stdout>>
             /\ Raise("FileNotFoundError")
        ELSE \E outcome \in {"ok", "bad_vocabulary", "no_connection"} :
               CASE outcome = "ok" ->
                      /\ tokenizer_vocab' = files[path]
                      /\ stdout' = Append(stdout,
                           [tag |-> "vocab md5sum", text |-> files[path]])
                      /\ Goto(After("define_preprocessor"))
                 [] outcome = "bad_vocabulary" ->
                      /\ files[path] # "vocab_txt"
                      /\ UNCHANGED <<tokenizer_vocab, stdout>>
                      /\ Raise("ValueError")
                 [] OTHER ->
                      /\ tokenizer_vocab' = files[path]
                      /\ stdout' = stdout
                      /\ Raise("ConnectionError")
  /\ UNCHANGED <<preset, hf_model_name, fsVars, netVars, modelVars, loopVars>>

(* ---------------------------- model loading --------------------------- *)
\* DistilBertBackbone.from_preset(FLAGS.preset, load_weights=False)
LoadKerasHubModel ==
  /\ pc = "load_keras_hub_model"
  /\ steps' = Append(steps, "load_keras_hub_model")
  /\ \E m \in KerasModels :
       /\ keras_hub_model' = m
       /\ weights' = InitialWeights(m)
  /\ Goto(After("load_keras_hub_model"))
  /\ UNCHANGED <<preset, hf_model_name, fsVars, netVars, tokenizer_vocab,
                 hf_model, cfg, loopVars, stdout>>

\* transformers.AutoModel.from_pretrained(hf_model_name); hf_model.eval()
LoadHfModel ==
  /\ pc = "load_hf_model"
  /\ steps' = Append(steps, "load_hf_model")
  /\ \E outcome \in {"ok", "no_connection"} :
       IF outcome = "ok"
       THEN /\ hf_model' = hf_model_name
            /\ Goto(After("load_hf_model"))
       ELSE /\ hf_model' = hf_model
            /\ Raise("ConnectionError")
  /\ UNCHANGED <<preset, hf_model_name, fsVars, netVars, tokenizer_vocab,
                 keras_hub_model, weights, cfg, loopVars, stdout>>

(* ------------------------- convert_checkpoints ------------------------ *)
\* Build cfg from config.json and print it.
ReadConfig ==
  /\ pc = "convert_checkpoints"
  /\ steps' = Append(steps, "convert_checkpoints")
  /\ LET path == Resolve(ConfigPath(preset))
     IN IF path \notin DOMAIN files
        THEN UNCHANGED <<cfg, stdout, k>> /\ Raise("FileNotFoundError")
        ELSE IF ~JsonParses(files[path])
        THEN UNCHANGED <<cfg, stdout, k>> /\ Raise("JSONDecodeError")
        ELSE IF ~HasConfigKeys(files[path])
        THEN UNCHANGED <<cfg, stdout, k>> /\ Raise("KeyError")
        ELSE /\ cfg' = BuildConfig(HubConfig(hub))
             /\ stdout' = Append(stdout, [tag |-> "Config:", text |-> "cfg"])
             /\ k' = 1
             /\ Goto("assign_embeddings")
  /\ UNCHANGED <<preset, hf_model_name, fsVars, netVars, tokenizer_vocab,
                 keras_hub_model, weights, hf_model, i, assign_log, read_log>>

\* One statement
\*   keras_hub_model.get_layer(layer).<attr>.assign(<conversion of hf_wts[key]>)
\* The destination is looked up first, then the source tensor, then the
\* conversion runs, then assign checks the shape.  The statement after it is
\* reached only when all four succeed.
Assign(layer, attr, key, op, next) ==
  LET Fail(kind) ==
        /\ UNCHANGED <<weights, assign_log, i, k>>
        /\ Raise(kind)
  IN IF layer \notin keras_hub_model.layers
     THEN read_log' = read_log /\ Fail("ValueError: no such layer")
     ELSE
       /\ read_log' = Append(read_log, key)
       /\ IF key \notin StateDictKeys(Architecture(hf_model, hub))
          THEN Fail("KeyError")
          ELSE
            LET conv == Conversion(op, StateDict(Architecture(hf_model, hub), key), cfg)
                slot == Slot(layer, attr)
            IN IF ~ReshapeOk(conv.pre, conv.shape)
               THEN Fail("RuntimeError: reshape")
               ELSE
                 LET value == Reshape(conv.pre, conv.shape)
                 IN IF ~ShapesMatch(weights[slot], value)
                    THEN Fail("ValueError: shape")
                    ELSE /\ weights' = [weights EXCEPT ![slot] =
                               [shape |-> value.shape, data |-> value.data,
                                src |-> key]]
                         /\ assign_log' =
                              Append(assign_log, [slot |-> slot, key |-> key])
                         /\ i' = next.i
                         /\ k' = next.k
                         /\ Goto(next.pc)

AssignEmbedding ==
  /\ pc = "assign_embeddings"
  /\ LET st == EmbeddingStatements[k]
     IN Assign(LayerName(st.layer, -1), st.attr, SrcKey(-1, st.key), st.op,
               IF k < Len(EmbeddingStatements)
               THEN [pc |-> "assign_embeddings", i |-> i, k |-> k + 1]
               ELSE [pc |-> "for_layer", i |-> 0, k |-> 1])
  /\ UNCHANGED <<preset, hf_model_name, fsVars, netVars, steps, tokenizer_vocab,
                 keras_hub_model, hf_model, cfg, stdout>>

\* for i in range(keras_hub_model.num_layers)
ForLayer ==
  /\ pc = "for_layer"
  /\ Goto(IF i < LoopBound(keras_hub_model, cfg) THEN "assign_layer"
          ELSE "save_weights")
  /\ UNCHANGED <<preset, hf_model_name, fsVars, netVars, steps, tokenizer_vocab,
                 modelVars, loopVars, stdout>>

AssignLayer ==
  /\ pc = "assign_layer"
  /\ LET st == LayerStatements[k]
     IN Assign(LayerOf(st, i), st.attr, LayerKey(st, i), st.op,
               IF k < Len(LayerStatements)
               THEN [pc |-> "assign_layer", i |-> i, k |-> k + 1]
               ELSE [pc |-> "for_layer", i |-> i + 1, k |-> 1])
  /\ UNCHANGED <<preset, hf_model_name, fsVars, netVars, steps, tokenizer_vocab,
                 keras_hub_model, hf_model, cfg, stdout>>

\* keras_hub_model.save_weights(f"{FLAGS.preset}.h5")
SaveWeights ==
  /\ pc = "save_weights"
  /\ files' = (Resolve(WeightsPath(preset)) :> "h5_weights") @@ files
  /\ write_log' = Append(write_log, Resolve(WeightsPath(preset)))
  /\ Goto(After("convert_checkpoints"))
  /\ UNCHANGED <<preset, hf_model_name, dirs, netVars, steps, tokenizer_vocab,
                 modelVars, loopVars, stdout>>

(* ----------------------------- check_output --------------------------- *)
\* Variant: a large difference is an error.
OnDifferenceChecked(diff) == IF diff = "large" THEN "raise" ELSE "print"

\* What check_output does with the difference of the two outputs.
OnDifference(diff) == "print"

CheckOutput ==
  /\ pc = "check_output"
  /\ steps' = Append(steps, "check_output")
  /\ \E diff \in {"small", "large"} :
       LET path == Resolve(ChecksumPath(preset))
           shown == Append(stdout, [tag |-> "Difference:", text |-> diff])
       IN IF OnDifference(diff) # "print"
          THEN stdout' = stdout /\ Raise("AssertionError")
          ELSE IF path \notin DOMAIN files
          THEN stdout' = shown /\ Raise("FileNotFoundError")
          ELSE /\ stdout' = Append(shown, [tag |-> "Model md5sum:", text |-> files[path]])
               /\ Goto(After("check_output"))
  /\ UNCHANGED <<preset, hf_model_name, fsVars, netVars, tokenizer_vocab,
                 modelVars, loopVars>>

Next ==
  \/ RunApp
  \/ LookupPreset
  \/ MakeExtractDir
  \/ GetConfig
  \/ WriteConfig
  \/ GetVocab
  \/ WriteVocab
  \/ DefinePreprocessor
  \/ LoadKerasHubModel
  \/ LoadHfModel
  \/ ReadConfig
  \/ AssignEmbedding
  \/ ForLayer
  \/ AssignLayer
  \/ SaveWeights
  \/ CheckOutput

Spec == Init /\ [][Next]_vars

(* ============================ properties ============================== *)
Count(seq, x) == Cardinality({e \in 1..Len(seq) : seq[e] = x})

Occurs(seq, x) == \E e \in 1..Len(seq) : seq[e] = x

\* No element occurs twice: as many distinct elements as positions.
NoRepeat(seq) == Cardinality({seq[e] : e \in 1..Len(seq)}) = Len(seq)

IsPrefix(a, b) == Len(a) <= Len(b) /\ a = SubSeq(b, 1, Len(a))

\* The three files of the spec's "File outputs", relative to the working
\* directory, and the preset's directory.
PresetDir == <<preset>>

ConfigFile == <<preset, "config.json">>

VocabFile == <<preset, "vocab.txt">>

WeightsFile == <<preset \o ".h5">>

Saved == Occurs(write_log, WeightsFile)

\* Every variable of the destination model has been assigned from the source.
AllAssigned ==
  /\ keras_hub_model # NoKeras
  /\ \A l \in 0..(keras_hub_model.num_layers - 1), a \in TransformerAttrs :
       /\ Slot(LayerName("transformer_layer", l), a) \in DOMAIN weights
       /\ weights[Slot(LayerName("transformer_layer", l), a)].src # NoKey
  /\ \A s \in
       {Slot(LayerName("token_and_position_embedding", -1), "token_embedding.embeddings"),
        Slot(LayerName("token_and_position_embedding", -1),
             "position_embedding.position_embeddings"),
        Slot(LayerName("embeddings_layer_norm", -1), "gamma"),
        Slot(LayerName("embeddings_layer_norm", -1), "beta")} :
       s \in DOMAIN weights /\ weights[s].src # NoKey

\* C1: after a run of main that ends without an error the preset's directory
\* holds config.json and vocab.txt and the working directory holds
\* <preset>.h5; the script writes no other file; <preset>.h5 is written at
\* most once in any run, exactly once in a completed one, and only after the
\* four embedding assignments and those of every transformer layer.
C1_FileOutputs ==
  /\ \A e \in 1..Len(write_log) : write_log[e] \in {ConfigFile, VocabFile, WeightsFile}
  /\ Count(write_log, WeightsFile) <= 1
  /\ Saved =>
       /\ AllAssigned
       /\ Len(assign_log) = 4 + 16 * keras_hub_model.num_layers
  /\ pc = "done" =>
       /\ err = NoErr
       /\ PresetDir \in dirs
       /\ {ConfigFile, VocabFile, WeightsFile} \subseteq DOMAIN files
       /\ files[WeightsFile] = "h5_weights"
       /\ Count(write_log, WeightsFile) = 1
       /\ write_log = <<ConfigFile, VocabFile, WeightsFile>>

C1_Witness ==
  /\ pc = "done"
  /\ Saved
  /\ keras_hub_model.num_layers >= 2

\* The statements that follow ReadConfig within convert_checkpoints.
AfterReadConfig == {"assign_embeddings", "for_layer", "assign_layer", "save_weights"}

\* C2: an error in any step ends the run there as an uncaught exception.
\* Nothing runs after the failing statement and nothing is tried twice; a
\* run that fails before the save never writes <preset>.h5; files written
\* by earlier steps stay.  In particular the run does not go on past an
\* unparsable or incomplete config.json, a missing source tensor, a missing
\* destination layer, or an assignment whose shapes differ.
C2_ErrorsEndTheRun ==
  /\ (pc = "raised") <=> (err # NoErr)
  /\ pc = "raised" => ~ENABLED Next
  /\ NoRepeat(http_log) /\ NoRepeat(steps) /\ NoRepeat(read_log) /\ NoRepeat(write_log)
  /\ NoRepeat([e \in 1..Len(assign_log) |-> assign_log[e].slot])
  /\ (pc = "raised" /\ err.at # "check_output") =>
       ~Saved /\ WeightsFile \notin DOMAIN files
  /\ \A e \in 1..Len(write_log) :
       write_log[e] \in DOMAIN files /\ files[write_log[e]] # "old"
  /\ (pc \in AfterReadConfig \/ (pc = "raised" /\ err.at \in AfterReadConfig)) =>
       files[ConfigFile] = "config_json"
  /\ \A s \in DOMAIN weights :
       /\ s.layer \in keras_hub_model.layers
       /\ weights[s].shape = VarShape(keras_hub_model, s.attr)
  /\ LET missing == {read_log[e] : e \in 1..Len(read_log)} \ StateDictKeys(hub)
     IN missing # {} =>
          /\ missing = {read_log[Len(read_log)]}
          /\ pc = "raised" /\ err.kind = "KeyError"
  /\ Len(read_log) \in {Len(assign_log), Len(assign_log) + 1}
  /\ Len(read_log) > Len(assign_log) => pc = "raised"

C2_Witness ==
  /\ pc = "raised"
  /\ err.kind = "ValueError: shape"
  /\ Len(assign_log) > 4
  /\ {ConfigFile, VocabFile} \subseteq DOMAIN files
  /\ ~Saved

\* A run that failed at the lookup, or whose preset is no key of the map, has
\* entered no step, requested nothing and written nothing.
C3_Lookup ==
  /\ pc = "raised" /\ err.at = "main" =>
       /\ err.kind = "KeyError"
       /\ steps = <<>> /\ http_log = <<>> /\ write_log = <<>>
       /\ hf_model_name = ""
  /\ preset \notin {"distil_bert_base_en_uncased", "distil_bert_base_en_cased",
                    "distil_bert_base_multi_cased"} =>
       /\ pc \in {"__main__", "main", "usage_error", "raised"}
       /\ pc = "raised" => err.at = "main"
       /\ pc = "usage_error" => preset = Absent
       /\ steps = <<>> /\ http_log = <<>> /\ write_log = <<>>
  /\ pc \notin {"__main__", "main", "usage_error", "raised"} =>
       hf_model_name \in {"distilbert-base-uncased", "distilbert-base-cased",
                          "distilbert-base-multilingual-cased"}

\* The map has the three presets and is one-to-one.
C3_Presets ==
  /\ DOMAIN PRESET_MAP = {"distil_bert_base_en_uncased", "distil_bert_base_en_cased",
                          "distil_bert_base_multi_cased"}
  /\ \A a, b \in DOMAIN PRESET_MAP : PRESET_MAP[a] = PRESET_MAP[b] => a = b
  /\ hf_model_name # "" =>
       \A q \in DOMAIN PRESET_MAP : (PRESET_MAP[q] = hf_model_name) <=> (q = preset)

\* C3: PRESET_MAP has exactly the three presets, each with its own upstream
\* name; without the flag the program (run as a script) never calls main;
\* main run with a preset that is absent or no key of the map ends with
\* KeyError at the lookup, having created no directory, requested nothing
\* and written nothing.
C3_PresetLookup ==
  /\ [](C3_Lookup /\ C3_Presets)
  /\ [][(pc = "main" /\ preset \notin DOMAIN PRESET_MAP) =>
          (pc' = "raised" /\ dirs' = dirs /\ files' = files)]_vars
  /\ [][(pc = "__main__" /\ preset = Absent) => pc' = "usage_error"]_vars

C3_Witness ==
  /\ pc = "raised"
  /\ err.at = "main"
  /\ preset = Absent

MainOrder ==
  <<"download_files", "define_preprocessor", "load_keras_hub_model",
    "load_hf_model", "convert_checkpoints", "check_output">>

\* C4: the steps run one after the other in the order download, tokenizer
\* setup, model loading, weight remapping, numerical check, each at most once
\* and each after the one before it has finished; the tokenizer is built
\* from the vocab.txt this run wrote, convert_checkpoints reads the
\* config.json this run wrote, and check_output takes the checksum of the
\* weights file convert_checkpoints saved.
C4_Sequential ==
  /\ IsPrefix(steps, MainOrder)
  /\ Occurs(steps, "define_preprocessor") =>
       /\ Len(http_log) = 2
       /\ IsPrefix(<<ConfigFile, VocabFile>>, write_log)
  /\ tokenizer_vocab # "" =>
       /\ Occurs(write_log, VocabFile)
       /\ tokenizer_vocab = files[VocabFile]
       /\ tokenizer_vocab \in {"vocab_txt", "error_text"}
  /\ Occurs(steps, "load_keras_hub_model") => tokenizer_vocab # ""
  /\ Occurs(steps, "load_hf_model") => keras_hub_model # NoKeras
  /\ Occurs(steps, "convert_checkpoints") =>
       /\ hf_model # "" /\ keras_hub_model # NoKeras
       /\ Occurs(write_log, ConfigFile)
       /\ Len(assign_log) = 0 \/ cfg # NoCfg
  /\ Occurs(steps, "check_output") => Saved /\ AllAssigned
  /\ \A e \in 1..Len(stdout) :
       stdout[e].tag = "Model md5sum:" => Saved /\ stdout[e].text = "h5_weights"

C4_Witness ==
  /\ pc = "done"
  /\ steps = MainOrder

\* The source tensor name the claim gives for each per-layer destination slot.
SourceNameOf(attr) ==
  CASE attr = "_self_attention_layer._query_dense.kernel" -> "attention.q_lin.weight"
    [] attr = "_self_attention_layer._query_dense.bias" -> "attention.q_lin.bias"
    [] attr = "_self_attention_layer._key_dense.kernel" -> "attention.k_lin.weight"
    [] attr = "_self_attention_layer._key_dense.bias" -> "attention.k_lin.bias"
    [] attr = "_self_attention_layer._value_dense.kernel" -> "attention.v_lin.weight"
    [] attr = "_self_attention_layer._value_dense.bias" -> "attention.v_lin.bias"
    [] attr = "_self_attention_layer._output_dense.kernel" -> "attention.out_lin.weight"
    [] attr = "_self_attention_layer._output_dense.bias" -> "attention.out_lin.bias"
    [] attr = "_self_attention_layer_norm.gamma" -> "sa_layer_norm.weight"
    [] attr = "_self_attention_layer_norm.beta" -> "sa_layer_norm.bias"
    [] attr = "_feedforward_intermediate_dense.kernel" -> "ffn.lin1.weight"
    [] attr = "_feedforward_intermediate_dense.bias" -> "ffn.lin1.bias"
    [] attr = "_feedforward_output_dense.kernel" -> "ffn.lin2.weight"
    [] attr = "_feedforward_output_dense.bias" -> "ffn.lin2.bias"
    [] attr = "_feedforward_layer_norm.gamma" -> "output_layer_norm.weight"
    [] attr = "_feedforward_layer_norm.beta" -> "output_layer_norm.bias"
    [] OTHER -> "?"

TransformerSlots ==
  {s \in DOMAIN weights : s.layer.name = "transformer_layer"}

\* C5: every per-layer destination slot is assigned at most once, from the
\* source tensor of the same layer index and of the corresponding name, and
\* once the loop has ended each slot of each layer 0..num_layers-1 has been
\* assigned exactly once.
C5_LayerSlots ==
  /\ \A e \in 1..Len(assign_log) :
       LET a == assign_log[e]
       IN a.slot.layer.name = "transformer_layer" =>
            /\ a.key.layer = a.slot.layer.index
            /\ a.key.name = SourceNameOf(a.slot.attr)
            /\ weights[a.slot].src = a.key
  /\ NoRepeat([e \in 1..Len(assign_log) |-> assign_log[e].slot])
  /\ \A s \in TransformerSlots :
       weights[s].src # NoKey =>
         /\ weights[s].src = SrcKey(s.layer.index, SourceNameOf(s.attr))
         /\ [slot |-> s, key |-> weights[s].src] \in
              {assign_log[e] : e \in 1..Len(assign_log)}
  /\ pc \in {"save_weights", "check_output", "done"} =>
       {[slot |-> Slot(LayerName("transformer_layer", l), a),
         key |-> SrcKey(l, SourceNameOf(a))] :
            l \in 0..(keras_hub_model.num_layers - 1), a \in TransformerAttrs}
         = {assign_log[e] : e \in 5..Len(assign_log)}

C5_Witness ==
  /\ pc = "done"
  /\ keras_hub_model.num_layers >= 2
  /\ Len(assign_log) >= 36

\* The source's dim, n_heads and hidden_dim as config.json states them, and
\* the size of one head.
Dim == hub.n_heads * hub.head_dim

Heads == hub.n_heads

HeadSize == Dim \div Heads

Ffn == hub.hidden_dim

Assigned(attr) ==
  {s \in DOMAIN weights : s.attr = attr /\ weights[s].src # NoKey}

\* The source elements 0..n-1 each occur exactly once in data.
Permutes(data, n) ==
  /\ Len(data) = n
  /\ {data[e] : e \in 1..n} = 0..(n - 1)

\* Source elements are numbered in row-major order: element (r, c) of a
\* source matrix with cols columns is number r * cols + c.
KernelSplit(w) ==
  /\ w.shape = <<Dim, Heads, HeadSize>>
  /\ \A h \in 0..(Dim - 1), n \in 0..(Heads - 1), d \in 0..(HeadSize - 1) :
       w.data[h * Heads * HeadSize + n * HeadSize + d + 1] = (n * HeadSize + d) * Dim + h
  /\ Permutes(w.data, Dim * Dim)

BiasSplit(w) ==
  /\ w.shape = <<Heads, HeadSize>>
  /\ \A n \in 0..(Heads - 1), d \in 0..(HeadSize - 1) :
       w.data[n * HeadSize + d + 1] = n * HeadSize + d
  /\ Permutes(w.data, Dim)

\* C6: cfg's hidden_dim is config.json's dim and its intermediate_dim is
\* config.json's hidden_dim; with H = dim, N = n_heads, D = H / N every
\* assigned query, key and value kernel has shape (H, N, D) with element
\* (h, n, d) the source weight's element (n*D + d, h), every assigned bias
\* has shape (N, D) with element (n, d) the source bias's element n*D + d, and
\* each source element occurs exactly once in its destination.
C6_QueryKeyValue ==
  /\ cfg # NoCfg =>
       /\ cfg.hidden_dim = Dim
       /\ cfg.num_heads = Heads
       /\ cfg.intermediate_dim = Ffn
  /\ \A a \in {"_self_attention_layer._query_dense.kernel",
               "_self_attention_layer._key_dense.kernel",
               "_self_attention_layer._value_dense.kernel"} :
       \A s \in Assigned(a) : KernelSplit(weights[s])
  /\ \A a \in {"_self_attention_layer._query_dense.bias",
               "_self_attention_layer._key_dense.bias",
               "_self_attention_layer._value_dense.bias"} :
       \A s \in Assigned(a) : BiasSplit(weights[s])

C6_Witness ==
  /\ pc = "done"
  /\ Heads >= 2 /\ HeadSize >= 2 /\ Ffn # Dim
  /\ Assigned("_self_attention_layer._value_dense.bias") # {}

OutputSplit(w) ==
  /\ w.shape = <<Heads, HeadSize, Dim>>
  /\ \A n \in 0..(Heads - 1), d \in 0..(HeadSize - 1), h \in 0..(Dim - 1) :
       w.data[n * HeadSize * Dim + d * Dim + h + 1] = h * Dim + (n * HeadSize + d)

Copied(w, n) ==
  /\ w.shape = <<n>>
  /\ w.data = [e \in 1..n |-> e - 1]

\* The transpose of a source matrix with the given rows and columns.
Transposed(w, rows, cols) ==
  /\ w.shape = <<cols, rows>>
  /\ \A a \in 0..(cols - 1), b \in 0..(rows - 1) :
       w.data[a * rows + b + 1] = b * cols + a

\* C7: with H, N, D as in C6 every assigned output kernel has shape (N, D, H)
\* with element (n, d, h) the source out_lin weight's element (h, n*D + d);
\* the output bias, both layer norms' weights and biases and both
\* feed-forward biases are copied index for index; both feed-forward kernels
\* are the transpose of the source weight.
C7_OutputAndFeedForward ==
  /\ \A s \in Assigned("_self_attention_layer._output_dense.kernel") :
       OutputSplit(weights[s])
  /\ \A a \in {"_self_attention_layer._output_dense.bias",
               "_self_attention_layer_norm.gamma", "_self_attention_layer_norm.beta",
               "_feedforward_output_dense.bias",
               "_feedforward_layer_norm.gamma", "_feedforward_layer_norm.beta"} :
       \A s \in Assigned(a) : Copied(weights[s], Dim)
  /\ \A s \in Assigned("_feedforward_intermediate_dense.bias") :
       Copied(weights[s], Ffn)
  /\ \A s \in Assigned("_feedforward_intermediate_dense.kernel") :
       Transposed(weights[s], Ffn, Dim)
  /\ \A s \in Assigned("_feedforward_output_dense.kernel") :
       Transposed(weights[s], Dim, Ffn)

C7_Witness ==
  /\ pc = "done"
  /\ Heads >= 2 /\ HeadSize >= 2 /\ Ffn # Dim
  /\ Assigned("_feedforward_layer_norm.beta") # {}

\* check_output never raises, and a finished run has printed the difference
\* and the checksum of the saved weights file last.
C8_Done ==
  /\ err.at # "check_output"
  /\ pc = "done" =>
       /\ err = NoErr
       /\ files[WeightsFile] = "h5_weights"
       /\ Len(stdout) >= 2
       /\ stdout[Len(stdout) - 1].tag = "Difference:"
       /\ stdout[Len(stdout)] = [tag |-> "Model md5sum:", text |-> "h5_weights"]

\* C8: check_output prints the difference and the checksum of the weights
\* file and does nothing else: whatever the difference, the step ends the
\* run successfully, and it changes neither the model's weights nor any file.
C8_Advisory ==
  /\ []C8_Done
  /\ [][pc = "check_output" =>
          /\ pc' = "done"
          /\ UNCHANGED <<weights, keras_hub_model, files, dirs, write_log>>]_vars

C8_Witness ==
  /\ pc = "done"
  /\ stdout[Len(stdout) - 1] = [tag |-> "Difference:", text |-> "large"]
  /\ files[WeightsFile] = "h5_weights"

ConvertRaised == pc = "raised" /\ err.at \in {"assign_embeddings", "assign_layer"}

\* C9: the loop runs over the destination model's num_layers, whatever
\* n_layers config.json states.  A source with fewer layers ends the run at
\* the first tensor of the first missing layer, with no weights file; a
\* source with more layers is converted without any missing-tensor error and
\* its layers from num_layers on are never read.
C9_LayerCount ==
  /\ \A e \in 1..Len(read_log) : read_log[e].layer < keras_hub_model.num_layers
  /\ pc \in {"save_weights", "check_output", "done"} =>
       /\ i = keras_hub_model.num_layers
       /\ Len(assign_log) = 4 + 16 * keras_hub_model.num_layers
       /\ hub.n_layers >= keras_hub_model.num_layers
  /\ cfg # NoCfg => cfg.num_layers = hub.n_layers
  /\ (cfg # NoCfg /\ hub.n_layers < keras_hub_model.num_layers) =>
       /\ ~Saved
       /\ (pc = "assign_layer" /\ i = hub.n_layers) => k = 1
       /\ (ConvertRaised /\ err.kind = "KeyError") =>
            /\ i = hub.n_layers
            /\ read_log[Len(read_log)] = SrcKey(hub.n_layers, "attention.q_lin.weight")
            /\ Len(assign_log) = 4 + 16 * hub.n_layers
       /\ i <= hub.n_layers
  /\ (cfg # NoCfg /\ hub.n_layers >= keras_hub_model.num_layers) =>
       ~(ConvertRaised /\ err.kind = "KeyError")

C9_Witness ==
  /\ ConvertRaised
  /\ err.kind = "KeyError"
  /\ hub.n_layers < keras_hub_model.num_layers
  /\ ~Saved

\* The other case of C9: a completed run with a deeper source model.
C9_WitnessMore ==
  /\ pc = "done"
  /\ hub.n_layers > keras_hub_model.num_layers

DownloadSteps == {"download_files", "get_config", "write_config", "get_vocab", "write_vocab"}

ErrorBodies == {"error_text", "error_json"}

\* C10: download_files requests config.json once and vocab.txt once and
\* stores each body whatever the status: an error status raises nothing, the
\* error body becomes the file and the run goes on to the tokenizer step; an
\* existing directory and existing files raise nothing and the files are
\* overwritten.
C10_Download ==
  /\ IsPrefix(http_log,
              <<<<"https://huggingface.co", hf_model_name, "raw/main/config.json">>,
                <<"https://huggingface.co", hf_model_name, "raw/main/vocab.txt">>>>)
  /\ pc \notin DownloadSteps \cup {"__main__", "main", "usage_error", "raised"} =>
       Len(http_log) = 2
  /\ (pc = "raised" /\ err.at \in DownloadSteps) =>
       /\ err.kind = "ConnectionError"
       /\ err.at \in {"get_config", "get_vocab"}
  /\ pc = "get_vocab" =>
       /\ files[ConfigFile] = response.content
       /\ response.status = 404 => files[ConfigFile] \in ErrorBodies
  /\ pc = "define_preprocessor" =>
       /\ files[VocabFile] = response.content
       /\ response.status = 404 => files[VocabFile] \in ErrorBodies
       /\ PresetDir \in dirs
  /\ Occurs(write_log, ConfigFile) => files[ConfigFile] \in ErrorBodies \cup {"config_json"}
  /\ Occurs(write_log, VocabFile) => files[VocabFile] \in ErrorBodies \cup {"vocab_txt"}

C10_Witness ==
  /\ pc = "define_preprocessor"
  /\ response.status = 404
  /\ files[ConfigFile] \in ErrorBodies
  /\ files[VocabFile] \in ErrorBodies

====
